---- MODULE Spec2Model ----
(***************************************************************************)
(* Model of combine-and-defend (src/src/main.rs): a planet, asteroids      *)
(* spawned by a repeating timer, two ships (bump / destroy) that lock on   *)
(* and chase asteroids, dice loots dropped by destroyed asteroids, and     *)
(* the dice bag fed by the DiceOwnedEvent / DiceLostEvent queues.          *)
(*                                                                         *)
(* One frame runs the systems in the order main() registers them, which    *)
(* is the order the executor starts them in; systems that share no data    *)
(* overlap, which leaves the state they write as it is in that order.  The *)
(* Commands of a frame (spawn, despawn) are deferred to the end of the     *)
(* frame, after which the physics service moves the bodies and reports     *)
(* the contact events the next frame reads.                                *)
(***************************************************************************)
EXTENDS Integers, Sequences, FiniteSets

(***************************************************************************)
(* Bounds of the model.                                                    *)
(***************************************************************************)
\* asteroids ever spawned in one run (entity ids are never reused)
MaxAsteroids == 2
\* model clock ticks per second (granularity of Duration)
TicksPerSecond == 3
\* largest fixed frame duration of the timer specification, in ticks
MaxDelta == 5
\* frames of the timer specification
MaxSteps == 20
\* dice loots alive at once
MaxDices == 2
\* dice kept in the bag
MaxBag == 2
\* pushes of the dice bag specification
MaxPushes == 3
\* largest N of try_consume::<N> in the dice bag specification
MaxConsume == 3

(***************************************************************************)
(* Program constants.                                                      *)
(***************************************************************************)
ASTEROID_SPAWN_RADIUS_DISTANCE == 800
ASTEROID_SPEED == 1
ASTEROID_SPAWN_TIME == 1
SHIP_SPEED == 2400
SHIP_TRIGGER_MAX_DISTANCE == 400
SHIP_BUMP_FORCE == 4
SHIP_MAX_DISTANCE_FROM_PLANET_INTEREST == 500
SHIP_PLANET_SIGHT == 100
\* Sprite custom_size of a DiceLoot: Vec2::splat(25.0)
DICE_SPRITE_SIZE == 25
\* torque_impulse of a bump, in thousandths (0.001)
BUMP_TORQUE_MILLI == 1
\* rng.gen_range(0..6): exclusive upper end of the draw
RNG_RANGE_END == 6

None == <<>>

(***************************************************************************)
(* Vectors.  A position is a pair of integers.  A direction is the result  *)
(* of normalize_or_zero: the zero vector for a zero vector, otherwise the  *)
(* ray of the vector, represented by the vector divided by the gcd of its  *)
(* coordinates.  A scaled direction (velocity, impulse) keeps the ray and  *)
(* the magnitude.                                                          *)
(***************************************************************************)
Abs(n) == IF n < 0 THEN -n ELSE n

RECURSIVE Gcd(_, _)
Gcd(a, b) == IF b = 0 THEN a ELSE Gcd(b, a % b)

Vec2ZERO == <<0, 0>>

Sub(a, b) == <<a[1] - b[1], a[2] - b[2]>>

distance_squared(a, b) == (a[1] - b[1]) * (a[1] - b[1]) + (a[2] - b[2]) * (a[2] - b[2])

\* a.distance(b) > r and a.distance(b) <= r, r >= 0, on integer coordinates
distance_gt(a, b, r) == distance_squared(a, b) > r * r
distance_le(a, b, r) == distance_squared(a, b) <= r * r
distance_ge(a, b, r) == distance_squared(a, b) >= r * r

\* a normalisation that falls back on the X axis for a vector of length 0
normalize_or_x(v) ==
    IF v = Vec2ZERO THEN <<1, 0>>
    ELSE LET g == Gcd(Abs(v[1]), Abs(v[2])) IN <<v[1] \div g, v[2] \div g>>

normalize_or_zero(v) ==
    IF v = Vec2ZERO THEN Vec2ZERO
    ELSE LET g == Gcd(Abs(v[1]), Abs(v[2])) IN <<v[1] \div g, v[2] \div g>>

\* direction * magnitude
Scale(direction, magnitude) ==
    IF direction = Vec2ZERO \/ magnitude = 0
    THEN [dir |-> Vec2ZERO, mag |-> 0]
    ELSE [dir |-> direction, mag |-> magnitude]

ZeroVector == [dir |-> Vec2ZERO, mag |-> 0]

(***************************************************************************)
(* Option<T>: None, or Some(x) as the one-element sequence <<x>>.          *)
(***************************************************************************)
Some(x) == <<x>>
Unwrap(o) == o[1]

Min(S) == CHOOSE x \in S : \A y \in S : x <= y

EmptyMap == [x \in {} |-> None]
Merge(f, g) == [x \in (DOMAIN f) \cup (DOMAIN g) |-> IF x \in DOMAIN g THEN g[x] ELSE f[x]]
Without(f, S) == [x \in (DOMAIN f) \ S |-> f[x]]

(***************************************************************************)
(* DiceNumber and DiceBag.                                                 *)
(***************************************************************************)
\* enum DiceNumber { One, .., Six } as its face value
DiceNumber == 1..6

\* the values rng.gen_range(0..6) can return
RngValues == 0..(RNG_RANGE_END - 1)

from_rng(r) == IF r \in 1..5 THEN r ELSE 6

\* a push that puts the value at the front
push_front(bag, dice) == <<dice>> \o bag

push(bag, dice) == Append(bag, dice)

\* a pop that takes the newest value instead of the oldest
pop_back(bag) == [value |-> bag[Len(bag)], bag |-> SubSeq(bag, 1, Len(bag) - 1)]

\* VecDeque::pop_front().unwrap() on a non-empty bag
pop_front(bag) == [value |-> Head(bag), bag |-> Tail(bag)]

\* array::from_fn(|_| self.bag.pop_front().unwrap()) filling n slots in index order
RECURSIVE from_fn(_, _, _)
from_fn(bag, n, array) ==
    IF n = 0 THEN [ret |-> Some(array), bag |-> bag]
    ELSE LET p == pop_front(bag) IN from_fn(p.bag, n - 1, Append(array, p.value))

\* a consume that removes what it can before it finds the bag too short
try_consume_partial(bag, n) ==
    IF Len(bag) >= n THEN from_fn(bag, n, <<>>)
    ELSE [ret |-> None, bag |-> from_fn(bag, Len(bag), <<>>).bag]

try_consume(bag, n) ==
    IF Len(bag) >= n THEN from_fn(bag, n, <<>>)
    ELSE [ret |-> None, bag |-> bag]

(***************************************************************************)
(* The repeating Timer of AsteroidSpawnConfig (bevy Timer::tick with       *)
(* repeating = true): the elapsed time grows by delta; when it reaches     *)
(* the duration the timer is finished for this tick and keeps the          *)
(* remainder of elapsed modulo duration.                                   *)
(***************************************************************************)
Period == ASTEROID_SPAWN_TIME * TicksPerSecond

\* a timer that is finished only once the duration is exceeded
tick_late(timer, delta) ==
    LET elapsed == timer.elapsed + delta IN
    IF elapsed > Period
    THEN [elapsed |-> elapsed - Period * (elapsed \div Period), finished |-> TRUE]
    ELSE [elapsed |-> elapsed, finished |-> FALSE]

\* a timer that takes one duration off when it is finished
tick_one_period(timer, delta) ==
    LET elapsed == timer.elapsed + delta IN
    IF elapsed >= Period
    THEN [elapsed |-> elapsed - Period, finished |-> TRUE]
    ELSE [elapsed |-> elapsed, finished |-> FALSE]

tick(timer, delta) ==
    LET elapsed == timer.elapsed + delta IN
    IF elapsed >= Period
    THEN [elapsed |-> elapsed - Period * (elapsed \div Period), finished |-> TRUE]
    ELSE [elapsed |-> elapsed, finished |-> FALSE]

\* Timer::new(Duration::from_secs(ASTEROID_SPAWN_TIME), true)
NewTimer == [elapsed |-> 0, finished |-> FALSE]

(***************************************************************************)
(* Entities.  The planet and the two ships are created at startup and      *)
(* never despawned.  Asteroid and dice loot entities are allocated from    *)
(* finite pools; an identifier is handed out again only once no component  *)
(* and no ShipTarget refers to it any more.                                *)
(***************************************************************************)
PlanetEntity == 0
BumpShip == 1
DestroyShip == 2
ShipEntities == {BumpShip, DestroyShip}
AsteroidIds == 3..(2 + MaxAsteroids)
DiceIds == (3 + MaxAsteroids)..(2 + MaxAsteroids + MaxDices)

\* entities carrying the ContactBumpPower / ContactDestroyPower component
ContactBumpPower == {BumpShip}
ContactDestroyPower == {DestroyShip}

\* Transform of the planet: the default of its bundle
planet_translation == <<0, 0>>

\* (cos, sin) of the random spawn angle
SpawnAngles == {<<1, 0>>}

\* the durations time.delta() may take in a frame, in ticks
FrameDeltas == {0, Period}

\* where setup_ships puts a ship
ship_start(ship) == IF ship = BumpShip THEN <<100, 100>> ELSE <<100, -100>>

VARIABLES
    env,               \* the bounded environment of the run ("none" in the bag and timer runs)
    pc,                \* the system that runs next in the frame
    time_delta,        \* time.delta() of the frame
    timer,             \* AsteroidSpawnConfig.timer
    ships,             \* ship entity -> [translation, linvel, target]
    asteroids,         \* live asteroid entity -> [translation, impulse, torque_impulse]
    dices,             \* live dice loot entity -> [translation, number]
    commands,          \* Commands of the frame, applied when the frame ends
    collision_events,  \* CollisionEvents the systems of the frame read
    buttons,           \* the left click of the frame: None or Some(world position)
    dice_lost,         \* DiceLostEvents sent and not yet read
    dice_owned,        \* DiceOwnedEvents sent and not yet read
    dice_bag,          \* DiceBag.bag
    emitted,           \* the inventory events sent in the frame, in the order of the sends
    ret,               \* dice bag runs: what the last try_consume returned
    pushed,            \* dice bag runs: every value pushed, in order
    consumed,          \* dice bag runs: every value try_consume returned, in order
    steps,             \* timer runs: frames so far
    requested          \* timer runs: asteroids spawn_asteroids asked for

vars == <<env, pc, time_delta, timer, ships, asteroids, dices, commands, collision_events,
          buttons, dice_lost, dice_owned, dice_bag, emitted, ret, pushed, consumed, steps,
          requested>>

bag_vars == <<ret, pushed, consumed>>

timer_vars == <<steps, requested>>

(***************************************************************************)
(* The environment (physics service, pointer, clock, random generator) is  *)
(* bounded.  A run is in one of four environments.                         *)
(*   "chase": the asteroids move between three places: the spawn point, a  *)
(*     place inside both the trigger radius of the ships and the planet's  *)
(*     zone of interest, and a place inside the zone of interest but out   *)
(*     of trigger reach; the destroy ship moves between its start and the  *)
(*     planet; contacts are with the planet and the bump ship.             *)
(*   "acquire": the asteroids move between two places within trigger reach *)
(*     of the bump ship only, the nearer one outside the planet's zone of  *)
(*     interest and the farther one inside; the destroy ship moves between *)
(*     its start and a place exactly SHIP_PLANET_SIGHT away from the       *)
(*     planet; contacts are with the planet.                               *)
(*   "loot": the bodies stay where they were created; contacts are between *)
(*     an asteroid and the planet or the destroy ship; the pointer clicks  *)
(*     on, near and off a loot; the generator draws two values.            *)
(*   "contacts": the bodies stay where they were created; every pair of    *)
(*     bodies may be reported in contact, one or two pairs in a frame, and *)
(*     so may a body and a dice loot; the pointer clicks on a loot.        *)
(***************************************************************************)
Environments == {"chase", "acquire", "loot", "contacts"}

AsteroidPositions ==
    IF env = "chase" THEN {<<800, 0>>, <<100, 100>>, <<-350, 0>>}
    ELSE IF env = "acquire" THEN {<<400, 310>>, <<100, 480>>}
    ELSE {<<800, 0>>}

ShipPositions(ship) ==
    IF env = "chase" /\ ship = DestroyShip THEN {<<100, -100>>, <<0, 0>>}
    ELSE IF env = "acquire" /\ ship = DestroyShip THEN {<<100, -100>>, <<60, -80>>}
    ELSE {ship_start(ship)}

\* world positions of a left click: the centre of a loot at the spawn point, a point
\* 20 to its right, a point 30 to its right
ClickPositions ==
    IF env = "loot" THEN {<<800, 0>>, <<820, 0>>, <<830, 0>>}
    ELSE IF env = "contacts" THEN {<<800, 0>>}
    ELSE {}

\* the values the random generator is taken to return
RngDraws == IF env = "loot" THEN {0, 3} ELSE {0}

NoCommands == [despawn |-> {}, asteroids |-> EmptyMap, dices |-> EmptyMap]

\* the state the startup systems leave (setup_planet, setup_asteroid_spawning, setup_ships)
InitWorld ==
    /\ pc = "spawn_asteroids"
    /\ time_delta = 0
    /\ timer = NewTimer
    /\ ships = [s \in ShipEntities |->
                  [translation |-> ship_start(s),
                   linvel |-> ZeroVector,
                   target |-> None]]
    /\ asteroids = EmptyMap
    /\ dices = EmptyMap
    /\ commands = NoCommands
    /\ collision_events = <<>>
    /\ buttons = None
    /\ dice_lost = 0
    /\ dice_owned = <<>>
    /\ dice_bag = <<>>
    /\ emitted = <<>>
    /\ ret = [n |-> 0, ret |-> None]
    /\ pushed = <<>>
    /\ consumed = <<>>
    /\ steps = 0
    /\ requested = 0

Init == env \in Environments /\ InitWorld

\* Query::get
planet_get(e) == e = PlanetEntity
asteroids_get(e) == e \in DOMAIN asteroids

\* asteroid identifiers nothing refers to
FreeAsteroidIds ==
    AsteroidIds \ (DOMAIN asteroids \cup DOMAIN commands.asteroids
                   \cup {Unwrap(ships[s].target) : s \in {x \in ShipEntities : ships[x].target /= None}})

FreeDiceIds == DiceIds \ (DOMAIN dices \cup DOMAIN commands.dices)

(***************************************************************************)
(* spawn_asteroids                                                         *)
(***************************************************************************)
\* the bundle of a new asteroid for a spawn angle
new_asteroid(angle) ==
    LET translation == <<angle[1] * ASTEROID_SPAWN_RADIUS_DISTANCE + planet_translation[1],
                         angle[2] * ASTEROID_SPAWN_RADIUS_DISTANCE + planet_translation[2]>>
        direction == normalize_or_zero(Sub(planet_translation, translation))
    IN [translation |-> translation,
        impulse |-> Scale(direction, ASTEROID_SPEED),
        torque_impulse |-> 0]

spawn_asteroids ==
    /\ pc = "spawn_asteroids"
    /\ \E delta \in FrameDeltas :
         /\ time_delta' = delta
         /\ timer' = tick(timer, delta)
         /\ IF timer'.finished
            THEN /\ FreeAsteroidIds /= {}
                 /\ \E angle \in SpawnAngles :
                      commands' = [commands EXCEPT !.asteroids =
                          Merge(@, [e \in {Min(FreeAsteroidIds)} |-> new_asteroid(angle)])]
            ELSE commands' = commands
    /\ pc' = "setup_ships_target_lock"
    /\ UNCHANGED <<ships, asteroids, dices, collision_events, buttons, dice_lost,
                   dice_owned, dice_bag, env, bag_vars, timer_vars, emitted>>

(***************************************************************************)
(* setup_ships_target_lock                                                 *)
(***************************************************************************)
\* asteroids.iter().min_by_key(distance_squared to the ship): the first minimum
\* in iteration order, taken here as the order of the entity identifiers
nearest_asteroid(ship_translation) ==
    LET key(e) == distance_squared(asteroids[e].translation, ship_translation)
        least == {e \in DOMAIN asteroids : \A o \in DOMAIN asteroids : key(e) <= key(o)}
    IN Min(least)

\* a target lock that forgets the max-interest test of a locked asteroid
ship_target_no_release(ship_translation, ship_target) ==
    IF ship_target /= None /\ asteroids_get(Unwrap(ship_target))
    THEN ship_target
    ELSE LET entity == nearest_asteroid(ship_translation)
             transform == asteroids[entity]
         IN IF /\ distance_le(transform.translation, ship_translation, SHIP_TRIGGER_MAX_DISTANCE)
               /\ distance_le(planet_translation, transform.translation,
                              SHIP_MAX_DISTANCE_FROM_PLANET_INTEREST)
            THEN Some(entity)
            ELSE ship_target

\* a target lock that scans for the nearest asteroid among those passing both tests
ship_target_lock_nearest_eligible(ship_translation, ship_target) ==
    IF ship_target /= None /\ asteroids_get(Unwrap(ship_target))
    THEN LET transform == asteroids[Unwrap(ship_target)] IN
         IF distance_gt(planet_translation, transform.translation,
                        SHIP_MAX_DISTANCE_FROM_PLANET_INTEREST)
         THEN None
         ELSE ship_target
    ELSE LET eligible == {e \in DOMAIN asteroids :
                 /\ distance_le(asteroids[e].translation, ship_translation,
                                SHIP_TRIGGER_MAX_DISTANCE)
                 /\ distance_le(planet_translation, asteroids[e].translation,
                                SHIP_MAX_DISTANCE_FROM_PLANET_INTEREST)}
             key(e) == distance_squared(asteroids[e].translation, ship_translation)
         IN IF eligible = {} THEN ship_target
            ELSE Some(Min({e \in eligible : \A o \in eligible : key(e) <= key(o)}))

\* a target lock that scans again in the run that clears the target
ship_target_lock_rescan(ship_translation, ship_target) ==
    LET scan == LET entity == nearest_asteroid(ship_translation)
                    transform == asteroids[entity]
                IN IF /\ distance_le(transform.translation, ship_translation,
                                     SHIP_TRIGGER_MAX_DISTANCE)
                      /\ distance_le(planet_translation, transform.translation,
                                     SHIP_MAX_DISTANCE_FROM_PLANET_INTEREST)
                   THEN Some(entity)
                   ELSE None
    IN IF ship_target /= None /\ asteroids_get(Unwrap(ship_target))
       THEN LET transform == asteroids[Unwrap(ship_target)] IN
            IF distance_gt(planet_translation, transform.translation,
                           SHIP_MAX_DISTANCE_FROM_PLANET_INTEREST)
            THEN scan
            ELSE ship_target
       ELSE IF scan /= None THEN scan ELSE ship_target

\* the body of the loop over the ships, asteroids not empty: the new ShipTarget
ship_target_lock(ship_translation, ship_target) ==
    IF ship_target /= None /\ asteroids_get(Unwrap(ship_target))
    THEN LET transform == asteroids[Unwrap(ship_target)] IN
         IF distance_gt(planet_translation, transform.translation,
                        SHIP_MAX_DISTANCE_FROM_PLANET_INTEREST)
         THEN None
         ELSE ship_target
    ELSE LET entity == nearest_asteroid(ship_translation)
             transform == asteroids[entity]
         IN IF /\ distance_le(transform.translation, ship_translation, SHIP_TRIGGER_MAX_DISTANCE)
               /\ distance_le(planet_translation, transform.translation,
                              SHIP_MAX_DISTANCE_FROM_PLANET_INTEREST)
            THEN Some(entity)
            ELSE ship_target

setup_ships_target_lock ==
    /\ pc = "setup_ships_target_lock"
    /\ IF DOMAIN asteroids /= {}
       THEN ships' = [s \in ShipEntities |->
                [ships[s] EXCEPT !.target = ship_target_lock(ships[s].translation, @)]]
       ELSE ships' = ships
    /\ pc' = "move_ships"
    /\ UNCHANGED <<time_delta, timer, asteroids, dices, commands, collision_events, buttons,
                   dice_lost, dice_owned, dice_bag, env, bag_vars, timer_vars, emitted>>

(***************************************************************************)
(* move_ships                                                              *)
(***************************************************************************)
\* a velocity that leaves a ship without live target where it is
ship_linvel_no_fallback(ship_translation, ship_target) ==
    IF ship_target /= None /\ asteroids_get(Unwrap(ship_target))
    THEN LET diff == Sub(asteroids[Unwrap(ship_target)].translation, ship_translation)
         IN Scale(normalize_or_zero(diff), SHIP_SPEED * time_delta)
    ELSE ZeroVector

\* the linvel of a ship: toward its live target, else toward the planet when the
\* planet is SHIP_PLANET_SIGHT away or more, else zero
ship_linvel(ship_translation, ship_target) ==
    IF ship_target /= None /\ asteroids_get(Unwrap(ship_target))
    THEN LET diff == Sub(asteroids[Unwrap(ship_target)].translation, ship_translation)
         IN Scale(normalize_or_zero(diff), SHIP_SPEED * time_delta)
    ELSE IF distance_ge(planet_translation, ship_translation, SHIP_PLANET_SIGHT)
         THEN LET diff == Sub(planet_translation, ship_translation)
              IN Scale(normalize_or_zero(diff), SHIP_SPEED * time_delta)
         ELSE ZeroVector

move_ships ==
    /\ pc = "move_ships"
    /\ ships' = [s \in ShipEntities |->
            [ships[s] EXCEPT !.linvel = ship_linvel(ships[s].translation, ships[s].target)]]
    /\ pc' = "collision_events"
    /\ UNCHANGED <<time_delta, timer, asteroids, dices, commands, collision_events, buttons,
                   dice_lost, dice_owned, dice_bag, env, bag_vars, timer_vars, emitted>>

(***************************************************************************)
(* The batch of CollisionEvents of a frame.  The physics step wrote it     *)
(* before the frame; no system reads it before the collision systems, so   *)
(* the model draws it when the first of them is about to run.  A body of   *)
(* an event may be an asteroid that is despawned by now.  A dice loot has  *)
(* no Collider, so the physics service never names one; events naming a    *)
(* loot are drawn all the same, to show what the systems do with them.     *)
(***************************************************************************)
ContactBodies == {PlanetEntity} \cup ShipEntities \cup AsteroidIds

Started(e1, e2) == [kind |-> "Started", e1 |-> e1, e2 |-> e2]
Stopped(e1, e2) == [kind |-> "Stopped", e1 |-> e1, e2 |-> e2]

\* contacts of an asteroid with the planet or a ship
AsteroidContacts == {Started(x, a) : x \in {PlanetEntity} \cup ShipEntities, a \in AsteroidIds}

\* a batch of two contacts lists them in the order of their bodies
Before(p, q) == p.e1 < q.e1 \/ (p.e1 = q.e1 /\ p.e2 < q.e2)

ContactBatches ==
    IF env = "chase"
    THEN {<<>>}
         \cup {<<Started(x, a)>> : x \in {PlanetEntity, BumpShip}, a \in AsteroidIds}
         \cup {<<Started(a, x)>> : x \in {PlanetEntity, BumpShip}, a \in AsteroidIds}
         \cup {<<Started(PlanetEntity, a), Started(PlanetEntity, b)>> : a, b \in AsteroidIds}
    ELSE IF env = "acquire"
    THEN {<<>>}
         \cup {<<Started(PlanetEntity, a)>> : a \in AsteroidIds}
    ELSE IF env = "loot"
    THEN {<<>>}
         \cup {<<Started(x, a)>> : x \in {PlanetEntity, DestroyShip}, a \in AsteroidIds}
         \cup {<<Started(a, x)>> : x \in {PlanetEntity, DestroyShip}, a \in AsteroidIds}
    ELSE {<<>>}
         \cup {<<Started(a, b)>> : a, b \in ContactBodies}
         \cup {<<Started(x, d)>> : x \in ContactBodies, d \in DiceIds}
         \cup {<<Started(d, x)>> : x \in ContactBodies, d \in DiceIds}
         \cup {<<Stopped(PlanetEntity, a)>> : a \in AsteroidIds}
         \cup {<<p, q>> : p, q \in AsteroidContacts}

\* one contact start names two bodies, and one batch names a pair of bodies once
WellFormedBatch(batch) ==
    /\ \A i \in DOMAIN batch : batch[i].e1 /= batch[i].e2
    /\ \A i, j \in DOMAIN batch : i < j => Before(batch[i], batch[j])

report_collision_events ==
    /\ pc = "collision_events"
    /\ collision_events' \in {batch \in ContactBatches : WellFormedBatch(batch)}
    /\ pc' = "despawn_asteroids_on_planet_collision"
    /\ UNCHANGED <<time_delta, timer, ships, asteroids, dices, commands, buttons,
                   dice_lost, dice_owned, dice_bag, env, bag_vars, timer_vars, emitted>>

(***************************************************************************)
(* despawn_asteroids_on_planet_collision                                   *)
(***************************************************************************)
\* the asteroid the event makes the system despawn, if any
planet_collision_despawn(event) ==
    IF event.kind = "Started"
    THEN IF planet_get(event.e1) /\ asteroids_get(event.e2) THEN Some(event.e2)
         ELSE IF planet_get(event.e2) /\ asteroids_get(event.e1) THEN Some(event.e1)
         ELSE None
    ELSE None

\* the entities a sequence of Option<Entity> names
Entities(options) == {Unwrap(options[i]) : i \in {j \in DOMAIN options : options[j] /= None}}

despawn_asteroids_on_planet_collision ==
    /\ pc = "despawn_asteroids_on_planet_collision"
    /\ commands' = [commands EXCEPT !.despawn =
            @ \cup Entities([i \in DOMAIN collision_events |->
                                planet_collision_despawn(collision_events[i])])]
    /\ pc' = "remove_dice_from_bag_on_planet_collision"
    /\ UNCHANGED <<time_delta, timer, ships, asteroids, dices, collision_events, buttons,
                   dice_lost, dice_owned, dice_bag, env, bag_vars, timer_vars, emitted>>

(***************************************************************************)
(* remove_dice_from_bag_on_planet_collision                                *)
(***************************************************************************)
\* a test that knows the planet in the first slot only
planet_collision_dice_lost_one_order(event) ==
    IF event.kind = "Started" /\ planet_get(event.e1) /\ asteroids_get(event.e2) THEN 1 ELSE 0

\* the DiceLostEvents the system sends for an event
planet_collision_dice_lost(event) ==
    IF event.kind = "Started"
    THEN IF planet_get(event.e1) /\ asteroids_get(event.e2) THEN 1
         ELSE IF planet_get(event.e2) /\ asteroids_get(event.e1) THEN 1
         ELSE 0
    ELSE 0

RECURSIVE Sum(_)
Sum(numbers) == IF numbers = <<>> THEN 0 ELSE Head(numbers) + Sum(Tail(numbers))

remove_dice_from_bag_on_planet_collision ==
    /\ pc = "remove_dice_from_bag_on_planet_collision"
    /\ dice_lost' = dice_lost + Sum([i \in DOMAIN collision_events |->
                                       planet_collision_dice_lost(collision_events[i])])
    /\ emitted' = emitted \o [i \in 1..(dice_lost' - dice_lost) |-> 0]
    /\ pc' = "bump_asteroids_on_ship_collision_with_bump_power"
    /\ UNCHANGED <<time_delta, timer, ships, asteroids, dices, commands, collision_events,
                   buttons, dice_owned, dice_bag, env, bag_vars, timer_vars>>

(***************************************************************************)
(* bump_asteroids_on_ship_collision_with_bump_power                        *)
(***************************************************************************)
ships_bump_get(e) == e \in ShipEntities /\ e \in ContactBumpPower
ships_destroy_get(e) == e \in ShipEntities /\ e \in ContactDestroyPower

\* a test that takes any ship for a ship with the bump power
bump_components_any_ship(event) ==
    IF event.kind = "Started"
    THEN IF event.e1 \in ShipEntities /\ asteroids_get(event.e2)
         THEN Some([ship |-> event.e1, asteroid |-> event.e2])
         ELSE IF event.e2 \in ShipEntities /\ asteroids_get(event.e1)
         THEN Some([ship |-> event.e2, asteroid |-> event.e1])
         ELSE None
    ELSE None

\* the (ship, asteroid) pair the event makes the system bump, if any
bump_components(event) ==
    IF event.kind = "Started"
    THEN IF ships_bump_get(event.e1) /\ asteroids_get(event.e2)
         THEN Some([ship |-> event.e1, asteroid |-> event.e2])
         ELSE IF ships_bump_get(event.e2) /\ asteroids_get(event.e1)
         THEN Some([ship |-> event.e2, asteroid |-> event.e1])
         ELSE None
    ELSE None

\* a bump that pulls the asteroid toward the ship
bumped_toward_ship(asteroid, ship_translation) ==
    LET diff == Sub(ship_translation, asteroid.translation)
        direction == normalize_or_zero(diff)
    IN [asteroid EXCEPT !.impulse = Scale(direction, SHIP_BUMP_FORCE),
                        !.torque_impulse = BUMP_TORQUE_MILLI]

\* the asteroid components after the bump of one ship
bumped(asteroid, ship_translation) ==
    LET diff == Sub(asteroid.translation, ship_translation)
        direction == normalize_or_zero(diff)
    IN [asteroid EXCEPT !.impulse = Scale(direction, SHIP_BUMP_FORCE),
                        !.torque_impulse = BUMP_TORQUE_MILLI]

\* the loop over the events, in order
RECURSIVE bump_events(_, _)
bump_events(events, asts) ==
    IF events = <<>> THEN asts
    ELSE LET components == bump_components(Head(events)) IN
         IF components = None THEN bump_events(Tail(events), asts)
         ELSE LET c == Unwrap(components) IN
              bump_events(Tail(events),
                  [asts EXCEPT ![c.asteroid] = bumped(@, ships[c.ship].translation)])

bump_asteroids_on_ship_collision_with_bump_power ==
    /\ pc = "bump_asteroids_on_ship_collision_with_bump_power"
    /\ asteroids' = bump_events(collision_events, asteroids)
    /\ pc' = "destroy_asteroids_on_ship_collision_with_destroy_power"
    /\ UNCHANGED <<time_delta, timer, ships, dices, commands, collision_events, buttons,
                   dice_lost, dice_owned, dice_bag, env, bag_vars, timer_vars, emitted>>

(***************************************************************************)
(* destroy_asteroids_on_ship_collision_with_destroy_power                  *)
(***************************************************************************)
\* a test that knows the ship in the first slot only
destroy_comps_one_order(event) ==
    IF event.kind = "Started" /\ ships_destroy_get(event.e1) /\ asteroids_get(event.e2)
    THEN Some(event.e2)
    ELSE None

\* a test that skips an asteroid another system of the frame already asked to despawn
destroy_comps_not_despawned(event) ==
    IF event.kind = "Started"
    THEN IF ships_destroy_get(event.e1) /\ asteroids_get(event.e2)
            /\ event.e2 \notin commands.despawn
         THEN Some(event.e2)
         ELSE IF ships_destroy_get(event.e2) /\ asteroids_get(event.e1)
                 /\ event.e1 \notin commands.despawn
         THEN Some(event.e1)
         ELSE None
    ELSE None

\* the asteroid the event makes the system destroy, if any
destroy_comps(event) ==
    IF event.kind = "Started"
    THEN IF ships_destroy_get(event.e1) /\ asteroids_get(event.e2) THEN Some(event.e2)
         ELSE IF ships_destroy_get(event.e2) /\ asteroids_get(event.e1) THEN Some(event.e1)
         ELSE None
    ELSE None

RECURSIVE SortedSeq(_)
SortedSeq(S) == IF S = {} THEN <<>> ELSE <<Min(S)>> \o SortedSeq(S \ {Min(S)})

\* the DiceLoot bundle spawned where the asteroid stands
new_dice(asteroid, draw) ==
    [translation |-> asteroid.translation, number |-> from_rng(draw)]

\* the asteroids the events destroy, in the order of the events
destroyed_asteroids ==
    LET hits == SelectSeq(collision_events, LAMBDA event : destroy_comps(event) /= None)
    IN [i \in DOMAIN hits |-> Unwrap(destroy_comps(hits[i]))]

destroy_asteroids_on_ship_collision_with_destroy_power ==
    /\ pc = "destroy_asteroids_on_ship_collision_with_destroy_power"
    /\ LET destroyed == destroyed_asteroids
           ids == SortedSeq(FreeDiceIds)
       IN /\ Len(destroyed) <= Len(ids)
          /\ \E draws \in [DOMAIN destroyed -> RngDraws] :
               commands' = [commands EXCEPT
                   !.despawn = @ \cup {destroyed[i] : i \in DOMAIN destroyed},
                   !.dices = Merge(@, [e \in {ids[i] : i \in DOMAIN destroyed} |->
                       LET i == CHOOSE j \in DOMAIN destroyed : ids[j] = e
                       IN new_dice(asteroids[destroyed[i]], draws[i])])]
    /\ pc' = "collect_dices_by_mouse_clicking"
    /\ UNCHANGED <<time_delta, timer, ships, asteroids, dices, collision_events, buttons,
                   dice_lost, dice_owned, dice_bag, env, bag_vars, timer_vars, emitted>>

(***************************************************************************)
(* The order in which the inventory events of a frame were sent.  main()   *)
(* adds the systems without ordering constraint, and the two senders,      *)
(* remove_dice_from_bag_on_planet_collision and                            *)
(* collect_dices_by_mouse_clicking, share no data: the executor of the     *)
(* stage runs them concurrently, so their sends interleave in any way.     *)
(* The two queues keep the order of the events of one kind only.  An       *)
(* inventory event is written 0 for DiceLostEvent and n for                *)
(* DiceOwnedEvent(n).                                                      *)
(***************************************************************************)
RECURSIVE Interleavings(_, _)
Interleavings(first, second) ==
    IF first = <<>> THEN {second}
    ELSE IF second = <<>> THEN {first}
    ELSE {<<Head(first)>> \o rest : rest \in Interleavings(Tail(first), second)}
         \cup {<<Head(second)>> \o rest : rest \in Interleavings(first, Tail(second))}

(***************************************************************************)
(* collect_dices_by_mouse_clicking                                         *)
(***************************************************************************)
\* the hit test of a dice loot against the click at world position p
dice_hit(dice, p) ==
    LET b_left == dice.translation[1] - DICE_SPRITE_SIZE
        b_right == dice.translation[1] + DICE_SPRITE_SIZE
        b_top == dice.translation[2] - DICE_SPRITE_SIZE
        b_bottom == dice.translation[2] + DICE_SPRITE_SIZE
    IN (p[1] >= b_left /\ p[1] <= b_right) /\ (p[2] >= b_top /\ p[2] <= b_bottom)

\* a scan that stops at the first hit
collected_dices_first_hit(click) ==
    IF click = None THEN <<>>
    ELSE LET hit == {e \in DOMAIN dices : dice_hit(dices[e], Unwrap(click))}
         IN IF hit = {} THEN <<>> ELSE <<Min(hit)>>

\* a scan that sends the event of every hit twice
collected_dices_twice(click) ==
    IF click = None THEN <<>>
    ELSE LET hit == SortedSeq({e \in DOMAIN dices : dice_hit(dices[e], Unwrap(click))})
         IN hit \o hit

\* the dice loots a click picks up, in iteration order
collected_dices(click) ==
    IF click = None THEN <<>>
    ELSE SortedSeq({e \in DOMAIN dices : dice_hit(dices[e], Unwrap(click))})

collect_dices_by_mouse_clicking ==
    /\ pc = "collect_dices_by_mouse_clicking"
    /\ \E click \in {None} \cup {Some(p) : p \in ClickPositions} :
         /\ buttons' = click
         /\ LET hit == collected_dices(click) IN
              /\ dice_owned' = dice_owned \o [i \in DOMAIN hit |-> dices[hit[i]].number]
              /\ emitted' \in Interleavings(emitted, [i \in DOMAIN hit |-> dices[hit[i]].number])
              /\ commands' = [commands EXCEPT !.despawn = @ \cup {hit[i] : i \in DOMAIN hit}]
    /\ pc' = "manage_dice_events"
    /\ UNCHANGED <<time_delta, timer, ships, asteroids, dices, collision_events,
                   dice_lost, dice_bag, env, bag_vars, timer_vars>>

(***************************************************************************)
(* manage_dice_events                                                      *)
(***************************************************************************)
\* for DiceLostEvent in dice_lost.iter() { dice_bag.try_consume::<1>(); }
RECURSIVE consume_lost(_, _)
consume_lost(bag, lost) ==
    IF lost = 0 THEN bag ELSE consume_lost(try_consume(bag, 1).bag, lost - 1)

\* for DiceOwnedEvent(number) in dice_owned.iter() { dice_bag.push(*number); }
RECURSIVE push_owned(_, _)
push_owned(bag, owned) ==
    IF owned = <<>> THEN bag ELSE push_owned(push(bag, Head(owned)), Tail(owned))

\* a drain that reads the lost events and forgets the owned ones
manage_dice_bag_lost_only(bag, lost, owned) == consume_lost(bag, lost)

\* a drain that takes two dice for every lost event
manage_dice_bag_twice(bag, lost, owned) == push_owned(consume_lost(bag, 2 * lost), owned)

\* a drain that reads the owned events before the lost ones
manage_dice_bag_owned_first(bag, lost, owned) == consume_lost(push_owned(bag, owned), lost)

\* the dice bag after the two loops
manage_dice_bag(bag, lost, owned) == push_owned(consume_lost(bag, lost), owned)

manage_dice_events ==
    /\ pc = "manage_dice_events"
    /\ dice_bag' = manage_dice_bag(dice_bag, dice_lost, dice_owned)
    /\ Len(dice_bag') <= MaxBag
    /\ dice_lost' = 0
    /\ dice_owned' = <<>>
    /\ emitted' = <<>>
    /\ pc' = "end_of_frame"
    /\ UNCHANGED <<time_delta, timer, ships, asteroids, dices, commands, collision_events,
                   buttons, env, bag_vars, timer_vars>>

(***************************************************************************)
(* The end of the frame: the Commands of the frame are applied, then the   *)
(* physics service consumes the impulses and moves the bodies.             *)
(***************************************************************************)
\* the asteroids and the dice loots once the commands are applied
apply_asteroids(cmds) == Merge(Without(asteroids, cmds.despawn), cmds.asteroids)
apply_dices(cmds) == Merge(Without(dices, cmds.despawn), cmds.dices)

end_of_frame ==
    /\ pc = "end_of_frame"
    /\ LET live == apply_asteroids(commands) IN
         \E position \in [DOMAIN live -> AsteroidPositions] :
            asteroids' = [e \in DOMAIN live |->
                [translation |-> position[e], impulse |-> ZeroVector, torque_impulse |-> 0]]
    /\ dices' = apply_dices(commands)
    /\ \E position \in [ShipEntities -> UNION {ShipPositions(s) : s \in ShipEntities}] :
         /\ \A s \in ShipEntities : position[s] \in ShipPositions(s)
         /\ ships' = [s \in ShipEntities |-> [ships[s] EXCEPT !.translation = position[s]]]
    /\ commands' = NoCommands
    /\ collision_events' = <<>>
    /\ buttons' = None
    /\ pc' = "spawn_asteroids"
    /\ UNCHANGED <<time_delta, timer, dice_lost, dice_owned, dice_bag, env, bag_vars, timer_vars, emitted>>

Next ==
    \/ spawn_asteroids
    \/ setup_ships_target_lock
    \/ move_ships
    \/ report_collision_events
    \/ despawn_asteroids_on_planet_collision
    \/ remove_dice_from_bag_on_planet_collision
    \/ bump_asteroids_on_ship_collision_with_bump_power
    \/ destroy_asteroids_on_ship_collision_with_destroy_power
    \/ collect_dices_by_mouse_clicking
    \/ manage_dice_events
    \/ end_of_frame

Spec == Init /\ [][Next]_vars

(***************************************************************************)
(* The dice bag on its own: any sequence of push and try_consume::<N>.     *)
(***************************************************************************)
InitBag == env = "none" /\ InitWorld

world_vars == <<env, pc, time_delta, timer, ships, asteroids, dices, commands,
                collision_events, buttons, dice_lost, dice_owned, emitted>>

DiceBagPush ==
    /\ Len(pushed) < MaxPushes
    /\ \E dice \in DiceNumber :
         /\ dice_bag' = push(dice_bag, dice)
         /\ pushed' = Append(pushed, dice)
    /\ UNCHANGED <<world_vars, ret, consumed, timer_vars>>

DiceBagTryConsume ==
    /\ \E n \in 1..MaxConsume :
         LET r == try_consume(dice_bag, n) IN
           /\ dice_bag' = r.bag
           /\ ret' = [n |-> n, ret |-> r.ret]
           /\ consumed' = consumed \o (IF r.ret = None THEN <<>> ELSE Unwrap(r.ret))
    /\ UNCHANGED <<world_vars, pushed, timer_vars>>

NextBag == DiceBagPush \/ DiceBagTryConsume

SpecBag == InitBag /\ [][NextBag]_vars

(***************************************************************************)
(* The spawn timer on its own: frames of one fixed duration.  The frame    *)
(* is spawn_asteroids with the asteroid bundle left out: the timer ticks   *)
(* and a finished timer counts one spawn request.                          *)
(***************************************************************************)
InitTimer ==
    /\ env = "none"
    /\ pc = "spawn_asteroids"
    /\ time_delta \in 1..MaxDelta
    /\ timer = NewTimer
    /\ ships = [s \in ShipEntities |->
                  [translation |-> ship_start(s), linvel |-> ZeroVector, target |-> None]]
    /\ asteroids = EmptyMap
    /\ dices = EmptyMap
    /\ commands = NoCommands
    /\ collision_events = <<>>
    /\ buttons = None
    /\ dice_lost = 0
    /\ dice_owned = <<>>
    /\ dice_bag = <<>>
    /\ emitted = <<>>
    /\ ret = [n |-> 0, ret |-> None]
    /\ pushed = <<>>
    /\ consumed = <<>>
    /\ steps = 0
    /\ requested = 0

spawn_asteroids_fixed_step ==
    /\ steps < MaxSteps
    /\ timer' = tick(timer, time_delta)
    /\ requested' = requested + (IF timer'.finished THEN 1 ELSE 0)
    /\ steps' = steps + 1
    /\ UNCHANGED <<env, pc, time_delta, ships, asteroids, dices, commands, collision_events,
                   buttons, dice_lost, dice_owned, dice_bag, emitted, bag_vars>>

NextTimer == spawn_asteroids_fixed_step

SpecTimer == InitTimer /\ [][NextTimer]_vars

(***************************************************************************)
(* Properties.                                                             *)
(***************************************************************************)
\* the system named by pc runs in this step
Runs(system) == pc = system /\ pc' /= pc

\* the event is a contact start between the bodies x and a, in either order
Contact(event, x, a) ==
    /\ event.kind = "Started"
    /\ \/ event.e1 = x /\ event.e2 = a
       \/ event.e1 = a /\ event.e2 = x

\* the events of the frame that are contact starts between x and a live asteroid
ContactsWith(x) ==
    {i \in DOMAIN collision_events :
        \E a \in DOMAIN asteroids : Contact(collision_events[i], x, a)}

\* the live asteroids a contact start of the frame joins with x
AsteroidsTouching(x) ==
    {a \in DOMAIN asteroids :
        \E i \in DOMAIN collision_events : Contact(collision_events[i], x, a)}

LiveTarget(s) == ships[s].target /= None /\ Unwrap(ships[s].target) \in DOMAIN asteroids

\* C1: once setup_ships_target_lock has run in a frame, the ShipTarget of every ship
\* is None or names a live asteroid.
TargetValidAfterTargeting ==
    pc = "move_ships" => \A s \in ShipEntities : ships[s].target = None \/ LiveTarget(s)

\* C2, as claimed: processing the contact starts between the destroy ship and live
\* asteroids despawns the asteroids and sends one DiceOwnedEvent for each of them.
DestroyContactSendsDiceOwned ==
    [][Runs("destroy_asteroids_on_ship_collision_with_destroy_power") =>
          /\ AsteroidsTouching(DestroyShip) \subseteq commands'.despawn
          /\ Len(dice_owned') = Len(dice_owned) + Cardinality(ContactsWith(DestroyShip))]_vars

\* the dice loots the commands of the step add
NewDices == (DOMAIN commands'.dices) \ (DOMAIN commands.dices)

\* C2, amended: processing the contact starts between the destroy ship and live
\* asteroids, in either entity order, despawns each asteroid and spawns one DiceLoot
\* for each contact, at the asteroid's position and with a face value in 1..6; it
\* sends no DiceOwnedEvent and despawns nothing else.
DestroyContactSpawnsLoot ==
    [][Runs("destroy_asteroids_on_ship_collision_with_destroy_power") =>
          /\ commands'.despawn = commands.despawn \cup AsteroidsTouching(DestroyShip)
          /\ Cardinality(NewDices) = Cardinality(ContactsWith(DestroyShip))
          /\ \A d \in NewDices : commands'.dices[d].number \in 1..6
          /\ \A a \in AsteroidsTouching(DestroyShip) :
                \E d \in NewDices : commands'.dices[d].translation = asteroids[a].translation
          /\ \A d \in NewDices : \E a \in AsteroidsTouching(DestroyShip) :
                commands'.dices[d].translation = asteroids[a].translation
          /\ dice_owned' = dice_owned
          /\ dice_lost' = dice_lost]_vars

\* C2 witness: the destroy system has run on a contact that names the asteroid first
\* and the destroy ship second, and on a draw of 0
DestroyContactSeen ==
    /\ pc = "collect_dices_by_mouse_clicking"
    /\ \E a \in DOMAIN asteroids :
         /\ collision_events = <<Started(a, DestroyShip)>>
         /\ a \in commands.despawn
    /\ \E d \in DOMAIN commands.dices : commands.dices[d].number = 6

\* the dice loots whose box holds the click of the frame
Clicked == IF buttons = None THEN {}
           ELSE {d \in DOMAIN dices :
                    /\ Abs(Unwrap(buttons)[1] - dices[d].translation[1]) <= DICE_SPRITE_SIZE
                    /\ Abs(Unwrap(buttons)[2] - dices[d].translation[2]) <= DICE_SPRITE_SIZE}

\* C3: the life of a loot.  (1) Processing a contact start between the destroy ship and
\* a live asteroid at p despawns the asteroid and creates exactly one DiceLoot at p (one
\* for each asteroid destroyed at p) with a face value f in 1..6, and leaves the dice bag and the pending inventory events as
\* they are; (2) at the end of the frame the asteroid is gone and the loot is live at p
\* with f, the bag still unchanged; (3) in a later frame whose click is at the centre p
\* of that loot, with no other loot under the click and no DiceLostEvent pending, the
\* drain leaves the bag equal to the bag before with f appended at the back, and the
\* loot is gone at the end of the frame.
LootLifeCycle ==
    [][/\ Runs("destroy_asteroids_on_ship_collision_with_destroy_power") =>
            /\ dice_bag' = dice_bag /\ dice_owned' = dice_owned /\ dice_lost' = dice_lost
            /\ \A a \in AsteroidsTouching(DestroyShip) :
                 /\ a \in commands'.despawn
                 /\ Cardinality({d \in NewDices :
                        commands'.dices[d].translation = asteroids[a].translation})
                    = Cardinality({b \in AsteroidsTouching(DestroyShip) :
                        asteroids[b].translation = asteroids[a].translation})
                 /\ \A d \in NewDices : commands'.dices[d].number \in 1..6
       /\ Runs("end_of_frame") =>
            /\ dice_bag' = dice_bag
            /\ \A a \in commands.despawn : a \notin DOMAIN asteroids'
            /\ \A d \in DOMAIN commands.dices :
                 d \in DOMAIN dices' /\ dices'[d] = commands.dices[d]
            /\ \A d \in Clicked : d \notin DOMAIN dices'
       /\ Runs("manage_dice_events") =>
            \A d \in DOMAIN dices :
               (/\ buttons = Some(dices[d].translation)
                /\ Clicked = {d}
                /\ dice_lost = 0)
               => /\ dice_bag' = Append(dice_bag, dices[d].number)
                  /\ d \in commands.despawn]_vars

\* C3 witness: the frame of the click has drained its events into a bag that was not
\* empty: the clicked loot, alone under the click and about to be despawned, has its
\* face value at the back of the bag
LootCollectedIntoBag ==
    /\ pc = "end_of_frame"
    /\ \E d \in DOMAIN dices :
         /\ buttons = Some(dices[d].translation)
         /\ Clicked = {d}
         /\ d \in commands.despawn
         /\ Len(dice_bag) = 2
         /\ dice_bag[2] = dices[d].number
         /\ dice_bag[1] /= dice_bag[2]
    /\ \A i \in DOMAIN collision_events : ~ \E a \in DOMAIN asteroids :
         Contact(collision_events[i], PlanetEntity, a)

\* C4: in a run of setup_ships_target_lock, a ship whose ShipTarget names a live asteroid
\* keeps it when the asteroid is at most SHIP_MAX_DISTANCE_FROM_PLANET_INTEREST from the
\* planet, however far the asteroid is from the ship, and has it set to None when the
\* asteroid is farther from the planet than that.
Hysteresis ==
    [][Runs("setup_ships_target_lock") =>
          \A s \in ShipEntities : LiveTarget(s) =>
             LET far == distance_squared(planet_translation,
                                         asteroids[Unwrap(ships[s].target)].translation)
                        > SHIP_MAX_DISTANCE_FROM_PLANET_INTEREST
                          * SHIP_MAX_DISTANCE_FROM_PLANET_INTEREST
             IN /\ ~far => ships'[s].target = ships[s].target
                /\ far => ships'[s].target = None]_vars

\* C4 witness: after the targeting run a ship holds a live target that is farther from
\* it than the trigger radius and inside the planet's zone of interest
TargetKeptBeyondTrigger ==
    /\ pc = "move_ships"
    /\ \E s \in ShipEntities :
         /\ LiveTarget(s)
         /\ distance_squared(ships[s].translation, asteroids[Unwrap(ships[s].target)].translation)
               > SHIP_TRIGGER_MAX_DISTANCE * SHIP_TRIGGER_MAX_DISTANCE
         /\ distance_squared(planet_translation, asteroids[Unwrap(ships[s].target)].translation)
               <= SHIP_MAX_DISTANCE_FROM_PLANET_INTEREST * SHIP_MAX_DISTANCE_FROM_PLANET_INTEREST

\* C5: the dice bag is first in, first out.  The values try_consume has returned so
\* far, followed by the values still in the bag, are the values pushed, in the order
\* of the pushes; and try_consume::<n> on a bag of n values or more returns its n
\* oldest values in insertion order and leaves the others in their order.
BagFifoOrder ==
    [][/\ pushed' = consumed' \o dice_bag'
       /\ (pushed' = pushed /\ Len(dice_bag) >= ret'.n) =>
             /\ ret'.ret = Some([i \in 1..ret'.n |-> dice_bag[i]])
             /\ dice_bag' = [i \in 1..(Len(dice_bag) - ret'.n) |-> dice_bag[i + ret'.n]]]_vars

\* C5 witness: three different values were pushed, one try_consume took the two oldest
\* and left the newest
ConsumedTwoOldest ==
    /\ Len(pushed) = 3
    /\ pushed[1] /= pushed[2] /\ pushed[2] /= pushed[3] /\ pushed[1] /= pushed[3]
    /\ ret = [n |-> 2, ret |-> Some(<<pushed[1], pushed[2]>>)]
    /\ dice_bag = <<pushed[3]>>

\* C6: try_consume::<n> on a bag of fewer than n values returns None and leaves the
\* bag as it is.
AtomicConsume ==
    [][(pushed' = pushed /\ Len(dice_bag) < ret'.n) =>
          /\ ret'.ret = None
          /\ dice_bag' = dice_bag
          /\ consumed' = consumed]_vars

\* C6 witness: a try_consume::<3> has failed on a bag of two values, which are still there
ConsumeFailedOnShortBag ==
    /\ ret = [n |-> 3, ret |-> None]
    /\ Len(dice_bag) = 2
    /\ pushed = dice_bag

\* C7: the two planet systems act together on the contact starts between the planet
\* and live asteroids, in either entity order: the first adds exactly these asteroids
\* to the despawns of the frame, the second sends exactly one DiceLostEvent for each
\* of these events; the asteroids are gone when the frame ends.
PlanetContact ==
    [][/\ Runs("despawn_asteroids_on_planet_collision") =>
            commands'.despawn = commands.despawn \cup AsteroidsTouching(PlanetEntity)
       /\ Runs("remove_dice_from_bag_on_planet_collision") =>
            /\ dice_lost' = dice_lost + Cardinality(ContactsWith(PlanetEntity))
            /\ AsteroidsTouching(PlanetEntity) \subseteq commands.despawn
       /\ Runs("end_of_frame") =>
            \A a \in AsteroidsTouching(PlanetEntity) : a \notin DOMAIN asteroids']_vars

\* C7 witness: both planet systems have run on a contact that names the asteroid first
\* and the planet second
PlanetContactSeen ==
    /\ pc = "bump_asteroids_on_ship_collision_with_bump_power"
    /\ \E a \in DOMAIN asteroids :
         /\ collision_events = <<Started(a, PlanetEntity)>>
         /\ a \in commands.despawn
    /\ dice_lost = 1

\* the smaller of two numbers
Least(a, b) == IF a <= b THEN a ELSE b

\* C8: the drain applies every pending inventory event once.  It removes one value from
\* the front of the bag for each DiceLostEvent while the bag is not empty (an empty bag
\* stays empty), then appends the value of each DiceOwnedEvent at the back, and leaves
\* no event pending; no other system removes a pending event, and no other system
\* changes the bag.
InventoryDrain ==
    [][/\ Runs("manage_dice_events") =>
            /\ dice_bag' = [i \in 1..(Len(dice_bag) - Least(dice_lost, Len(dice_bag))) |->
                               dice_bag[i + Least(dice_lost, Len(dice_bag))]] \o dice_owned
            /\ dice_lost' = 0
            /\ dice_owned' = <<>>
       /\ (pc /= "manage_dice_events" /\ pc' /= pc) =>
            /\ dice_bag' = dice_bag
            /\ dice_lost' >= dice_lost
            /\ Len(dice_owned') >= Len(dice_owned)
            /\ dice_owned = [i \in 1..Len(dice_owned) |-> dice_owned'[i]]]_vars

\* C8 witness: a frame with a planet contact and no click has drained its DiceLostEvent
\* from a bag of two values: one value is left
LostOneOfTwo ==
    /\ pc = "end_of_frame"
    /\ ContactsWith(PlanetEntity) /= {}
    /\ buttons = None
    /\ Len(dice_bag) = 1

\* C9: processing a contact start between the bump ship and a live asteroid, in either
\* entity order, sets the asteroid's impulse to SHIP_BUMP_FORCE along
\* normalize_or_zero(asteroid position - ship position) and its torque impulse to the
\* fixed torque; the step despawns nothing, spawns nothing and sends no inventory
\* event, and an asteroid that only the bump ship touched in the frame is still live
\* when the frame ends.
BumpContact ==
    [][/\ Runs("bump_asteroids_on_ship_collision_with_bump_power") =>
            /\ commands' = commands
            /\ dice_lost' = dice_lost /\ dice_owned' = dice_owned /\ dices' = dices
            /\ DOMAIN asteroids' = DOMAIN asteroids
            /\ \A a \in AsteroidsTouching(BumpShip) :
                 /\ asteroids'[a].translation = asteroids[a].translation
                 /\ asteroids'[a].impulse =
                       Scale(normalize_or_zero(Sub(asteroids[a].translation,
                                                   ships[BumpShip].translation)),
                             SHIP_BUMP_FORCE)
                 /\ asteroids'[a].torque_impulse = BUMP_TORQUE_MILLI
            /\ \A a \in (DOMAIN asteroids) \ AsteroidsTouching(BumpShip) :
                 asteroids'[a] = asteroids[a]
       /\ Runs("end_of_frame") =>
            \A a \in AsteroidsTouching(BumpShip) :
               (a \notin AsteroidsTouching(PlanetEntity) /\ a \notin AsteroidsTouching(DestroyShip))
               => a \in DOMAIN asteroids']_vars

\* C9 witness: the bump system has run on a contact that names the asteroid first and
\* the bump ship second; the asteroid carries the bump impulse, away from the ship
BumpContactSeen ==
    /\ pc = "destroy_asteroids_on_ship_collision_with_destroy_power"
    /\ \E a \in DOMAIN asteroids :
         /\ collision_events = <<Started(a, BumpShip)>>
         /\ asteroids[a].impulse.mag = SHIP_BUMP_FORCE
         /\ asteroids[a].impulse.dir =
               normalize_or_zero(Sub(asteroids[a].translation, ships[BumpShip].translation))
         /\ asteroids[a].impulse.dir /= Vec2ZERO
         /\ commands.despawn = {}

\* C10, as claimed: with a fixed frame duration, after any number of frames the spawn
\* requests are the whole periods of the elapsed time, whatever the frame duration.
SpawnEveryPeriod == requested = (steps * time_delta) \div Period

\* C10, amended: with a fixed frame duration of at most one period, after any number of
\* frames the spawn requests are the whole periods of the elapsed time.
SpawnEveryPeriodShortFrames ==
    time_delta <= Period => requested = (steps * time_delta) \div Period

\* C10 witness: frames shorter than the period that do not divide it have fired the
\* timer twice
TwoSpawnsWithCarry ==
    /\ time_delta < Period
    /\ Period % time_delta /= 0
    /\ requested = 2
    /\ timer.elapsed /= 0

\* a velocity is defined: integer coordinates of its ray, a magnitude that is not
\* negative, and the zero ray exactly for the zero magnitude
Defined(v) ==
    /\ v.dir[1] \in Int /\ v.dir[2] \in Int
    /\ v.mag \in Nat
    /\ (v.mag = 0) <=> (v.dir = Vec2ZERO)

\* C11: zero-vector safety.  In a run of move_ships, a ship whose ShipTarget names a live
\* asteroid standing exactly at the ship's position gets the velocity (0,0), a ship
\* without target standing exactly on the planet gets the velocity (0,0), and the
\* velocity of every ship is defined afterwards.
ZeroVectorSafety ==
    [][Runs("move_ships") =>
          \A s \in ShipEntities :
             /\ (/\ LiveTarget(s)
                 /\ asteroids[Unwrap(ships[s].target)].translation = ships[s].translation)
                => ships'[s].linvel = ZeroVector
             /\ (ships[s].target = None /\ ships[s].translation = planet_translation)
                => ships'[s].linvel = ZeroVector
             /\ Defined(ships'[s].linvel)]_vars

\* C11 witness: move_ships has run in a frame of positive duration on a ship that stands
\* exactly on its live target; the ship has the velocity (0,0)
ShipOnItsTarget ==
    /\ pc = "collision_events"
    /\ time_delta > 0
    /\ \E s \in ShipEntities :
         /\ LiveTarget(s)
         /\ asteroids[Unwrap(ships[s].target)].translation = ships[s].translation
         /\ ships[s].linvel = ZeroVector

\* the live asteroids that a contact start of the frame joins with the planet and another
\* joins with the destroy ship
TouchingPlanetAndDestroyShip == AsteroidsTouching(PlanetEntity) \cap AsteroidsTouching(DestroyShip)

\* C12: contacts are not deduplicated.  For a live asteroid with a contact start with
\* the planet and another with the destroy ship in the same frame: the planet systems
\* ask for its despawn and send one DiceLostEvent for each planet contact of the frame;
\* the destroy system, which runs later, still finds the asteroid live although its
\* despawn is already asked for, and spawns a DiceLoot at its position for each destroy
\* contact of the frame; the asteroid is gone and the loot is live when the frame ends.
ContactsNotDeduplicated ==
    [][\A a \in TouchingPlanetAndDestroyShip :
          /\ Runs("remove_dice_from_bag_on_planet_collision") =>
               /\ a \in commands.despawn
               /\ dice_lost' = dice_lost + Cardinality(ContactsWith(PlanetEntity))
               /\ dice_lost' > dice_lost
          /\ Runs("destroy_asteroids_on_ship_collision_with_destroy_power") =>
               /\ a \in commands.despawn /\ a \in DOMAIN asteroids
               /\ Cardinality(NewDices) = Cardinality(ContactsWith(DestroyShip))
               /\ \E d \in NewDices : commands'.dices[d].translation = asteroids[a].translation
               /\ dice_lost' = dice_lost
          /\ Runs("end_of_frame") =>
               /\ a \notin DOMAIN asteroids'
               /\ \E d \in DOMAIN commands.dices :
                    /\ commands.dices[d].translation = asteroids[a].translation
                    /\ d \in DOMAIN dices']_vars

\* C12 witness: the planet systems and the destroy system have run on a frame whose two
\* contact starts join the same live asteroid with the planet and with the destroy ship:
\* one DiceLostEvent is pending and one DiceLoot is spawned at the asteroid's position
PlanetAndDestroyContactSeen ==
    /\ pc = "collect_dices_by_mouse_clicking"
    /\ \E a \in DOMAIN asteroids :
         /\ collision_events = <<Started(PlanetEntity, a), Started(DestroyShip, a)>>
         /\ commands.despawn = {a}
         /\ dice_lost = 1
         /\ Cardinality(DOMAIN commands.dices) = 1
         /\ \A d \in DOMAIN commands.dices :
              commands.dices[d].translation = asteroids[a].translation

\* the event with its two bodies in the other order
Swap(event) == [event EXCEPT !.e1 = event.e2, !.e2 = event.e1]

\* how many of the three effects the systems apply for the event: the planet effect
\* (despawn with DiceLostEvent), the bump, the destruction with loot
Effects(event) ==
    (IF planet_collision_despawn(event) /= None \/ planet_collision_dice_lost(event) /= 0
     THEN 1 ELSE 0)
    + (IF bump_components(event) /= None THEN 1 ELSE 0)
    + (IF destroy_comps(event) /= None THEN 1 ELSE 0)

\* the event is not a contact start between a live asteroid and the planet or a ship
Ignored(event) ==
    \/ event.kind /= "Started"
    \/ ~ \E x \in {PlanetEntity} \cup ShipEntities, a \in DOMAIN asteroids : Contact(event, x, a)

CollisionSystems ==
    {"despawn_asteroids_on_planet_collision", "remove_dice_from_bag_on_planet_collision",
     "bump_asteroids_on_ship_collision_with_bump_power",
     "destroy_asteroids_on_ship_collision_with_destroy_power"}

\* C13: collision classification.  When a collision system runs, every event of the
\* frame is classified the same in both orders of its two bodies, the planet despawn and
\* the DiceLostEvent go together, and at most one of the three effects applies to it; an
\* event that is not a contact start between a live asteroid and the planet or a ship
\* (ship-ship, ship-planet, asteroid-asteroid, a pair with a loot or with a despawned
\* asteroid, a contact stop) has no effect: when all the events of the frame are such,
\* the system changes no entity, asks for no spawn and no despawn and sends no inventory
\* event.
CollisionClassification ==
    [][(pc \in CollisionSystems /\ pc' /= pc) =>
          /\ \A i \in DOMAIN collision_events :
               LET event == collision_events[i] IN
                 /\ planet_collision_despawn(Swap(event)) = planet_collision_despawn(event)
                 /\ planet_collision_dice_lost(Swap(event)) = planet_collision_dice_lost(event)
                 /\ bump_components(Swap(event)) = bump_components(event)
                 /\ destroy_comps(Swap(event)) = destroy_comps(event)
                 /\ (planet_collision_despawn(event) /= None)
                       <=> (planet_collision_dice_lost(event) = 1)
                 /\ Effects(event) <= 1
                 /\ Ignored(event) <=> (Effects(event) = 0)
          /\ (\A i \in DOMAIN collision_events : Ignored(collision_events[i])) =>
               /\ commands' = commands
               /\ asteroids' = asteroids /\ dices' = dices /\ ships' = ships
               /\ dice_lost' = dice_lost /\ dice_owned' = dice_owned
               /\ dice_bag' = dice_bag]_vars

\* C13 witness: the four collision systems have run on a contact start between two live
\* asteroids: nothing is asked for, no asteroid has an impulse, no event is pending
AsteroidAsteroidContactIgnored ==
    /\ pc = "collect_dices_by_mouse_clicking"
    /\ \E a, b \in DOMAIN asteroids :
         /\ a /= b
         /\ collision_events = <<Started(a, b)>>
    /\ commands = NoCommands
    /\ \A a \in DOMAIN asteroids : asteroids[a].impulse = ZeroVector
    /\ dice_lost = 0 /\ dice_owned = <<>>

Nearest(s) ==
    {e \in DOMAIN asteroids : \A o \in DOMAIN asteroids :
        distance_squared(asteroids[e].translation, ships[s].translation)
           <= distance_squared(asteroids[o].translation, ships[s].translation)}

\* the asteroid e is within the trigger radius of the ship s and within the max-interest
\* radius of the planet
Eligible(s, e) ==
    /\ distance_squared(asteroids[e].translation, ships[s].translation)
          <= SHIP_TRIGGER_MAX_DISTANCE * SHIP_TRIGGER_MAX_DISTANCE
    /\ distance_squared(planet_translation, asteroids[e].translation)
          <= SHIP_MAX_DISTANCE_FROM_PLANET_INTEREST * SHIP_MAX_DISTANCE_FROM_PLANET_INTEREST

\* C15: target acquisition.  In a run of setup_ships_target_lock, a ship whose ShipTarget
\* is None or names an asteroid that is not live: acquires a live asteroid at the least
\* distance from the ship when that asteroid is within the trigger radius of the ship and
\* within the max-interest radius of the planet; keeps its ShipTarget as it is when the
\* nearest asteroid fails one of the two tests, even if a farther asteroid passes both;
\* and never acquires an asteroid that is not a nearest one.
TargetAcquisition ==
    [][Runs("setup_ships_target_lock") =>
          \A s \in ShipEntities : ~LiveTarget(s) =>
             /\ (\A e \in Nearest(s) : Eligible(s, e)) /\ Nearest(s) /= {} =>
                  ships'[s].target \in {Some(e) : e \in Nearest(s)}
             /\ (\A e \in Nearest(s) : ~Eligible(s, e)) =>
                  ships'[s].target = ships[s].target
             /\ ships'[s].target \in {ships[s].target} \cup {Some(e) : e \in Nearest(s)}]_vars

\* C15 witness: the targeting run has left a ship without target although a live
\* asteroid passes both tests, because a nearer asteroid fails one
FartherAsteroidNotAcquired ==
    /\ pc = "move_ships"
    /\ \E s \in ShipEntities :
         /\ ships[s].target = None
         /\ \E n, f \in DOMAIN asteroids :
              /\ n \in Nearest(s) /\ f \notin Nearest(s)
              /\ ~Eligible(s, n)
              /\ Eligible(s, f)

\* the dice bag after one inventory event
apply_event(bag, event) == IF event = 0 THEN try_consume(bag, 1).bag ELSE push(bag, event)

\* the dice bag after the events, applied one by one in the order of the sequence
RECURSIVE apply_in_order(_, _)
apply_in_order(bag, events) ==
    IF events = <<>> THEN bag
    ELSE apply_in_order(apply_event(bag, Head(events)), Tail(events))

\* the pending events, the lost ones first
LostThenOwned == [i \in 1..dice_lost |-> 0] \o dice_owned

\* C16, as claimed: the drain leaves the bag that applying the pending events one by
\* one in the order of their emission gives.
DrainInEmissionOrder ==
    [][Runs("manage_dice_events") => dice_bag' = apply_in_order(dice_bag, emitted)]_vars

\* C16, amended: the drain applies every pending DiceLostEvent first and then every
\* pending DiceOwnedEvent in the order of their emission, whatever the order of emission
\* between the two kinds was; the bag it leaves is the bag that applying the events in
\* emission order gives when every lost event was sent before every owned event, or
\* when the bag holds at least as many dice as there are lost events pending.
DrainLostThenOwned ==
    [][Runs("manage_dice_events") =>
          /\ dice_bag' = apply_in_order(dice_bag, LostThenOwned)
          /\ (emitted = LostThenOwned \/ Len(dice_bag) >= dice_lost)
                => dice_bag' = apply_in_order(dice_bag, emitted)]_vars

\* C16 witness: a frame with a planet contact and a click on a loot has drained its
\* DiceLostEvent and its DiceOwnedEvent: the bag holds the face of the loot alone
LostAndOwnedDrained ==
    /\ pc = "end_of_frame"
    /\ Cardinality(ContactsWith(PlanetEntity)) = 1
    /\ \E d \in DOMAIN dices :
         /\ Clicked = {d}
         /\ d \in commands.despawn
         /\ dice_bag = <<dices[d].number>>

\* C17, as claimed: for the dice bag of every state and every face value v, a
\* DiceLostEvent followed by DiceOwnedEvent(v) leaves the same bag as DiceOwnedEvent(v)
\* followed by a DiceLostEvent.
PushConsumeCommute ==
    \A v \in DiceNumber :
       apply_in_order(dice_bag, <<0, v>>) = apply_in_order(dice_bag, <<v, 0>>)

\* C17, amended: for every dice bag that is not empty and every face value v, a
\* DiceLostEvent followed by DiceOwnedEvent(v) leaves the same bag as DiceOwnedEvent(v)
\* followed by a DiceLostEvent; on the empty bag the first order leaves the bag <<v>>
\* and the second leaves it empty.
PushConsumeCommuteOnNonEmptyBag ==
    \A v \in DiceNumber :
       /\ dice_bag /= <<>> =>
            apply_in_order(dice_bag, <<0, v>>) = apply_in_order(dice_bag, <<v, 0>>)
       /\ dice_bag = <<>> =>
            /\ apply_in_order(dice_bag, <<0, v>>) = <<v>>
            /\ apply_in_order(dice_bag, <<v, 0>>) = <<>>

\* C17 witness: a bag of two different values, after pushes and a successful try_consume
BagOfTwoAfterConsume ==
    /\ Len(dice_bag) = 2
    /\ dice_bag[1] /= dice_bag[2]
    /\ ret.ret /= None
    /\ consumed /= <<>>

\* the dice loots whose displayed box, of half the sprite size on each side of the
\* centre, holds the click of the frame
ClickedInDisplayedBox ==
    IF buttons' = None THEN {}
    ELSE {d \in DOMAIN dices :
             /\ 2 * Abs(Unwrap(buttons')[1] - dices[d].translation[1]) <= DICE_SPRITE_SIZE
             /\ 2 * Abs(Unwrap(buttons')[2] - dices[d].translation[2]) <= DICE_SPRITE_SIZE}

\* C18: the pick-up hit test uses the half size of the loot.  A run of
\* collect_dices_by_mouse_clicking on a click at p picks up a loot centred at c, of
\* display size s, if and only if |p.x - c.x| <= s.x / 2 and |p.y - c.y| <= s.y / 2;
\* a click outside the displayed box of every loot picks up nothing and sends no event.
HalfSizeHitTest ==
    [][Runs("collect_dices_by_mouse_clicking") =>
          /\ commands'.despawn = commands.despawn \cup ClickedInDisplayedBox
          /\ Len(dice_owned') = Len(dice_owned) + Cardinality(ClickedInDisplayedBox)]_vars

\* the dice loots the step asks to despawn
PickedUp == commands'.despawn \ commands.despawn

\* the dice loots whose box, as the hit test builds it, holds the click of the step
HitByClick ==
    IF buttons' = None THEN {}
    ELSE {d \in DOMAIN dices :
             /\ Abs(Unwrap(buttons')[1] - dices[d].translation[1]) <= DICE_SPRITE_SIZE
             /\ Abs(Unwrap(buttons')[2] - dices[d].translation[2]) <= DICE_SPRITE_SIZE}

\* C19, as claimed: one click picks up at most one loot and sends at most one
\* DiceOwnedEvent, even when the boxes of several live loots hold the clicked point.
AtMostOnePickUp ==
    [][Runs("collect_dices_by_mouse_clicking") =>
          /\ Cardinality(PickedUp) <= 1
          /\ Len(dice_owned') <= Len(dice_owned) + 1]_vars

\* C19, amended: one click picks up every live loot whose box, as the hit test builds
\* it, holds the clicked point: each of them is despawned and one DiceOwnedEvent with its
\* face value is sent for each, so one click may pick up several loots; a frame without
\* click picks up nothing.
PickUpEveryHit ==
    [][Runs("collect_dices_by_mouse_clicking") =>
          /\ PickedUp = HitByClick
          /\ Len(dice_owned') = Len(dice_owned) + Cardinality(HitByClick)
          /\ \A d \in HitByClick :
               Cardinality({i \in DOMAIN dice_owned' : i > Len(dice_owned)
                                                       /\ dice_owned'[i] = dices[d].number})
                  = Cardinality({e \in HitByClick : dices[e].number = dices[d].number})
          /\ \A i \in DOMAIN dice_owned : dice_owned'[i] = dice_owned[i]]_vars

\* C19 witness: one click has picked up two live loots of different faces
TwoLootsPickedByOneClick ==
    /\ pc = "manage_dice_events"
    /\ buttons /= None
    /\ \E d, e \in DOMAIN dices :
         /\ d /= e
         /\ dices[d].number /= dices[e].number
         /\ {d, e} \subseteq commands.despawn
         /\ Len(dice_owned) = 2

\* C20, as claimed: in each frame spawn_asteroids asks for at most one asteroid, and
\* when it does the accumulated time is reduced by exactly one period, the rest being
\* carried into the following frames.
FiresOnceAndCarriesRemainder ==
    [][/\ requested' <= requested + 1
       /\ requested' = requested + 1 =>
             timer'.elapsed = timer.elapsed + time_delta - Period]_vars

\* C20, amended: in each frame spawn_asteroids asks for at most one asteroid, exactly
\* when the accumulated time reaches the period; it then keeps the accumulated time
\* modulo the period, which is the accumulated time less one period only when less than
\* two periods were accumulated: the whole periods beyond the first are dropped, neither
\* spawned for nor carried.
FiresOnceAndKeepsRemainderModuloPeriod ==
    [][LET accumulated == timer.elapsed + time_delta IN
         /\ requested' <= requested + 1
         /\ requested' = requested + 1 <=> accumulated >= Period
         /\ accumulated >= Period => timer'.elapsed = accumulated % Period
         /\ (accumulated >= Period /\ accumulated < 2 * Period) =>
               timer'.elapsed = accumulated - Period
         /\ accumulated < Period => timer'.elapsed = accumulated]_vars

\* C20 witness: frames longer than the period have fired the timer, and time of a whole
\* period or more was neither spawned for nor kept
WholePeriodDropped ==
    /\ time_delta > Period
    /\ requested >= 1
    /\ steps * time_delta - requested * Period - timer.elapsed >= Period

\* the live target of the ship s is farther from the planet than the max-interest radius
TargetOutOfInterest(s) ==
    /\ LiveTarget(s)
    /\ distance_squared(planet_translation, asteroids[Unwrap(ships[s].target)].translation)
          > SHIP_MAX_DISTANCE_FROM_PLANET_INTEREST * SHIP_MAX_DISTANCE_FROM_PLANET_INTEREST

\* C21, as claimed: a targeting run that clears the ShipTarget of a ship, because its
\* asteroid is farther from the planet than the max-interest radius, scans the live
\* asteroids for that ship in the same run and acquires the nearest one when it passes
\* the trigger-radius and max-interest tests.
RescanAfterClearing ==
    [][Runs("setup_ships_target_lock") =>
          \A s \in ShipEntities :
             (TargetOutOfInterest(s) /\ \A e \in Nearest(s) : Eligible(s, e))
                => ships'[s].target \in {Some(e) : e \in Nearest(s)}]_vars

\* C21, amended: a targeting run that clears the ShipTarget of a ship, because its
\* asteroid is farther from the planet than the max-interest radius, leaves the ship
\* without target, even when the nearest live asteroid passes the trigger-radius and
\* max-interest tests; a run gives a new target only to a ship that entered it without
\* live target, so the ship waits for the next run to acquire again.
NoRescanAfterClearing ==
    [][Runs("setup_ships_target_lock") =>
          \A s \in ShipEntities :
             /\ TargetOutOfInterest(s) => ships'[s].target = None
             /\ (ships'[s].target /= None /\ ships'[s].target /= ships[s].target)
                   => ~LiveTarget(s)]_vars

\* C21 witness: the targeting run has left a ship without target although the nearest
\* live asteroid passes both tests: the run has cleared the target and not scanned
ClearedAndNotReacquired ==
    /\ pc = "move_ships"
    /\ \E s \in ShipEntities :
         /\ ships[s].target = None
         /\ Nearest(s) /= {}
         /\ \A e \in Nearest(s) : Eligible(s, e)

\* the dice loots among the despawns the commands hold
LootDespawns(cmds) == cmds.despawn \cap DiceIds

\* the steps of C22: what each system adds to the loots, the DiceOwnedEvents and the bag
TokenConservationSteps ==
    [][/\ Runs("destroy_asteroids_on_ship_collision_with_destroy_power") =>
            Cardinality(NewDices) <= Cardinality(ContactsWith(DestroyShip))
       /\ (pc /= "destroy_asteroids_on_ship_collision_with_destroy_power"
              /\ pc /= "end_of_frame" /\ pc' /= pc) =>
            commands'.dices = commands.dices
       /\ Runs("end_of_frame") =>
            /\ DOMAIN dices' \subseteq (DOMAIN dices \cup DOMAIN commands.dices)
            /\ LootDespawns(commands) \cap DOMAIN dices' = {}
       /\ (pc /= "end_of_frame" /\ pc' /= pc) => dices' = dices
       /\ Runs("collect_dices_by_mouse_clicking") =>
            /\ LootDespawns(commands) = {}
            /\ PickedUp \subseteq DOMAIN dices
            /\ Len(dice_owned') = Len(dice_owned) + Cardinality(PickedUp)
       /\ (pc /= "collect_dices_by_mouse_clicking" /\ pc /= "manage_dice_events"
              /\ pc' /= pc) =>
            /\ dice_owned' = dice_owned
            /\ pc /= "end_of_frame" => LootDespawns(commands') = LootDespawns(commands)
       /\ Runs("manage_dice_events") =>
            /\ Len(dice_bag') = Len(dice_bag) - Least(dice_lost, Len(dice_bag))
                                   + Len(dice_owned)
            /\ dice_owned' = <<>>
       /\ (pc /= "manage_dice_events" /\ pc' /= pc) => dice_bag' = dice_bag]_vars

\* C22: token conservation, step by step.  The destroy system creates at most one loot
\* for each contact start between the destroy ship and a live asteroid it processes,
\* and no other system creates a loot; a loot becomes live only from the commands of
\* its frame.  The click system sends one DiceOwnedEvent for each loot it picks up, picks
\* up only live loots that were not picked up before, and the picked loots are gone
\* when the frame ends, so a loot sends at most one event in its life; no other system
\* sends a DiceOwnedEvent or picks up a loot.  The drain pushes one value for each
\* pending DiceOwnedEvent, after one successful consume for each DiceLostEvent the bag
\* can serve, so the length of the bag grows by the pushes minus the successful
\* consumes; the bag changes in manage_dice_events only.  Summed over the steps of a
\* run: pushes <= loots picked up <= loots created <= destroy contacts processed.
\* In every state of a frame, the pending DiceOwnedEvents are at most the loots picked
\* up in the frame, and the loots created in the frame are at most its destroy contacts.
TokenConservation ==
    /\ [](/\ Len(dice_owned) <= Cardinality(LootDespawns(commands))
          /\ Cardinality(DOMAIN commands.dices) <= Cardinality(ContactsWith(DestroyShip)))
    /\ TokenConservationSteps

\* C22 witness: in one frame the destroy system has created a loot, the click has picked
\* up a live loot and the drain has pushed its value into the bag
LootCreatedAndTokenPushed ==
    /\ pc = "end_of_frame"
    /\ DOMAIN commands.dices /= {}
    /\ LootDespawns(commands) /= {}
    /\ LootDespawns(commands) \subseteq DOMAIN dices
    /\ Len(dice_bag) >= Cardinality(LootDespawns(commands))
    /\ ContactsWith(DestroyShip) /= {}

====
